---- MODULE Spec2Model ----
\* Event participation and QR attendance verification of ku-event-hub-backend:
\* the request handlers of src/routes/events.ts (second snapshot, lines 687-2111)
\* over the Event, User and Participation collections.  Every handler is split
\* at its awaits: one action per database read or write, so that requests
\* interleave exactly where the Node event loop lets them.
EXTENDS Integers, Sequences, FiniteSets, TLC

\* ---------------------------------------------------------------- bounds
MaxParts == 2       \* Participation documents ever created
MaxSeats == 2       \* largest totalSeats an event is created with
MaxIssue == 2       \* QR issuances (calls of encryptSymmetric) in one run
MaxNow == 2         \* the clock runs from 0 to MaxNow
MaxLen == 3         \* the longest text encrypted, in characters
BlockLen == 2       \* the bytes of a cipher block (16 in AES)

Users  == {"u1", "u2"}
Events == {"e1", "e2"}
Slots  == {1, 2}            \* requests in flight at the same time

\* ---------------------------------------------------------------- values
Null  == [k |-> "null"]     \* a field that is unset (schema default null)
Empty == [k |-> "empty"]    \* the empty string of a request body
Bad   == [k |-> "bad"]      \* a string no key/iv decrypts (decipher.final throws)
DecryptError == [k |-> "throw"]

QRCODE_ENCRYPTION_KEY == [k |-> "key"]

\* `${event._id.toString()}|${Date.now().toFixed()}`; the issuance number
\* stands for the millisecond timestamp.
OriginalString(e, t) == [k |-> "text", event |-> e, ts |-> t]

\* aes-256-cbc under the server key, symbolically: a ciphertext is the pair of
\* the text and the iv it was encrypted with.
encryptSymmetric(text, key, iv) ==
    [ciphertext |-> [k |-> "ct", pt |-> text, iv |-> iv], iv |-> iv]

\* Decrypting with another iv than the one used garbles the first block: the
\* result is a text, but never the one encrypted.  A malformed string throws.
decryptSymmetric(key, ciphertext, iv) ==
    IF ciphertext.k # "ct" THEN DecryptError
    ELSE IF ciphertext.iv = iv THEN ciphertext.pt
    ELSE [k |-> "garbled", of |-> ciphertext.pt, iv |-> iv]

\* QRCode.toDataURL(ciphertext): the data URL of the image of the ciphertext.
toDataURL(ciphertext) == [k |-> "png", data |-> ciphertext]

\* checkQrcode reads the image back; anything that is no image yields null.
checkQrcode(qrcodeString) ==
    IF qrcodeString.k = "png" THEN qrcodeString.data ELSE Null

\* The ciphertext of the i-th encryption, made for event e: the issuance
\* number stands for the random iv and for the timestamp in the text.
Issuance(e, i) ==
    encryptSymmetric(OriginalString(e, i), QRCODE_ENCRYPTION_KEY, i)

\* What a client may send as body.encryptedString: nothing, a string that
\* does not decrypt, or one of the ciphertexts the server has produced so far
\* (log: the events of the encryptions made, in order).
ScannedStrings(log) ==
    {Empty, Bad} \cup {Issuance(log[i], i).ciphertext : i \in 1..Len(log)}

\* JavaScript truthiness of a string-or-null value.
Truthy(v) == v.k \notin {"null", "empty"}

\* ---------------------------------------------------------------- state
VARIABLES
    events,     \* Event collection: id -> document
    users,      \* User collection: id -> joinedEvents (Participation ids)
    parts,      \* Participation collection: the sequence of documents, id = index
    issued,     \* the encryptSymmetric calls so far: the event of each, in order
    req,        \* the requests in flight: slot -> handler position and locals
    hist,       \* in a sequential run, the log of the successful joins, leaves
                \* and verifies of each user and event
    now,        \* the clock: what new Date() and Date.now() return
    sweep,      \* the hourly checkActiveEvents run: its position and the
                \* events its query found and has not yet updated
    crypt       \* a run of encryptSymmetric and decryptSymmetric on bytes:
                \* the text and key, then the ciphertext and iv, then the
                \* decrypted text

vars == <<events, users, parts, issued, req, hist, now, sweep, crypt>>

PartIds == 1..Len(parts)

NoDoc == [k |-> "none"]

IdleReq ==
    [pc |-> "idle", op |-> "none", user |-> "none", event |-> "none",
     body |-> Null, userDoc |-> <<>>, eventDoc |-> NoDoc, found |-> <<>>,
     made |-> 0, resp |-> "none", ret |-> Null]

NoLog == [u \in Users |-> [e \in Events |-> <<>>]]

\* new Event(event) and save(): the fields given, and the schema defaults
\* (src/schema/EventType.ts 70-99) for the others; createdAt is the clock's
\* time at the creation, which the caller passes.
createEvent(event) ==
    [name |-> event.name, eventTypes |-> event.eventTypes,
     totalSeats |-> event.totalSeats, startTime |-> event.startTime,
     endTime |-> event.endTime, createdAt |-> event.createdAt,
     isActive |-> TRUE, isDeactivated |-> FALSE,
     qrCodeString |-> Null, qrCodeIv |-> Null, participants |-> <<>>]

\* An event as created with the given number of seats, ending at MaxNow.
NewEvent(seats) ==
    createEvent([name |-> "n0", eventTypes |-> {"t1"}, totalSeats |-> seats,
                 startTime |-> 0, endTime |-> MaxNow, createdAt |-> 0])

IdleSweep == [pc |-> "idle", found |-> <<>>]

IdleCipher == [pc |-> "idle"]

\* Participation schema defaults (src/schema/Participation.ts 14-24).
NewParticipation(u, e) ==
    [user |-> u, event |-> e, isActive |-> TRUE, isConfirmed |-> FALSE]

Init ==
    /\ \E n \in 1..MaxSeats : events = [e \in Events |-> NewEvent(n)]
    /\ users = [u \in Users |-> <<>>]
    /\ parts = <<>>
    /\ issued = <<>>
    /\ req = [s \in Slots |-> IdleReq]
    /\ hist = [on |-> FALSE, log |-> NoLog]
    /\ now = 0
    /\ sweep = IdleSweep
    /\ crypt = IdleCipher

InitSeq ==
    /\ \E n \in 1..MaxSeats : events = [e \in Events |-> NewEvent(n)]
    /\ users = [u \in Users |-> <<>>]
    /\ parts = <<>>
    /\ issued = <<>>
    /\ req = [s \in Slots |-> IdleReq]
    /\ hist = [on |-> TRUE, log |-> NoLog]
    /\ now = 0
    /\ sweep = IdleSweep
    /\ crypt = IdleCipher

\* ------------------------------------------- services/crypto.ts on bytes
\* The functions above stand for encryptSymmetric and decryptSymmetric in the
\* handlers.  Here they are computed step by step, on a scaled-down cipher:
\* bytes of 3 bits, blocks of BlockLen bytes, a keyed permutation of the
\* block in place of AES, and CBC chaining, PKCS#7 padding, UTF-8 and base64
\* as Node computes them.
Bytes == 0..7

RECURSIVE Xor(_, _)
Xor(a, b) ==
    IF a = 0 /\ b = 0 THEN 0
    ELSE (((a % 2) + (b % 2)) % 2) + 2 * Xor(a \div 2, b \div 2)

XorBlock(x, y) == [i \in 1..BlockLen |-> Xor(x[i], y[i])]

\* The block cipher under the key, and its inverse.
EncryptBlock(key, block) ==
    [i \in 1..BlockLen |-> (block[(i % BlockLen) + 1] + key + i) % 8]

DecryptBlock(key, block) ==
    [j \in 1..BlockLen |->
        LET i == ((j + BlockLen - 2) % BlockLen) + 1
        IN (block[i] + 16 - key - i) % 8]

\* The characters of a text.  UTF-8 has one byte for "a".."d" (0..3) and a
\* lead byte (4, 5) with a continuation byte (6, 7) for the others; a lone
\* surrogate has no encoding and is written as U+FFFD ("replacement").
Utf8Char(c) ==
    CASE c = "a" -> <<0>>
      [] c = "b" -> <<1>>
      [] c = "c" -> <<2>>
      [] c = "d" -> <<3>>
      [] c = "eacute" -> <<4, 6>>
      [] c = "ntilde" -> <<4, 7>>
      [] c = "uuml" -> <<5, 6>>
      [] c = "replacement" -> <<5, 7>>
      [] c = "surrogate" -> <<5, 7>>

\* Buffer.from(text, "utf8").
RECURSIVE utf8Encode(_)
utf8Encode(text) ==
    IF text = <<>> THEN <<>>
    ELSE Utf8Char(Head(text)) \o utf8Encode(Tail(text))

\* StringDecoder("utf8"): the characters of the bytes, U+FFFD for a byte that
\* starts none, and the incomplete character at the end kept for the next
\* write (at the end of the stream it is written as U+FFFD).
RECURSIVE utf8Decode(_, _)
utf8Decode(bytes, atEnd) ==
    IF bytes = <<>> THEN [text |-> <<>>, rest |-> <<>>]
    ELSE IF Head(bytes) <= 3
    THEN LET r == utf8Decode(Tail(bytes), atEnd)
         IN [text |-> <<CASE Head(bytes) = 0 -> "a" [] Head(bytes) = 1 -> "b"
                          [] Head(bytes) = 2 -> "c" [] OTHER -> "d">> \o r.text,
             rest |-> r.rest]
    ELSE IF Head(bytes) >= 6
    THEN LET r == utf8Decode(Tail(bytes), atEnd)
         IN [text |-> <<"replacement">> \o r.text, rest |-> r.rest]
    ELSE IF Len(bytes) = 1
    THEN IF atEnd THEN [text |-> <<"replacement">>, rest |-> <<>>]
         ELSE [text |-> <<>>, rest |-> bytes]
    ELSE IF bytes[2] >= 6
    THEN LET r == utf8Decode(Tail(Tail(bytes)), atEnd)
         IN [text |-> <<CASE Head(bytes) = 4 /\ bytes[2] = 6 -> "eacute"
                          [] Head(bytes) = 4 /\ bytes[2] = 7 -> "ntilde"
                          [] Head(bytes) = 5 /\ bytes[2] = 6 -> "uuml"
                          [] OTHER -> "replacement">> \o r.text,
             rest |-> r.rest]
    ELSE LET r == utf8Decode(Tail(bytes), atEnd)
         IN [text |-> <<"replacement">> \o r.text, rest |-> r.rest]

\* A base64 string is the sequence of its groups of four characters, each
\* written as the 3 bytes it holds; a group ending in "=" holds 1 or 2.
\* buffer.toString("base64"): groups of three bytes, the last one shorter.
RECURSIVE toBase64(_)
toBase64(bytes) ==
    IF bytes = <<>> THEN <<>>
    ELSE IF Len(bytes) <= 3 THEN <<bytes>>
    ELSE <<SubSeq(bytes, 1, 3)>> \o toBase64(SubSeq(bytes, 4, Len(bytes)))

\* Buffer.from(string, "base64"): decoding stops after the first "=".
RECURSIVE fromBase64(_)
fromBase64(string) ==
    IF string = <<>> THEN <<>>
    ELSE IF Len(Head(string)) < 3 THEN Head(string)
    ELSE Head(string) \o fromBase64(Tail(string))

Base64WriteNoCarry(carry, bytes) ==
    [string |-> toBase64(carry \o bytes), carry |-> <<>>]

\* StringDecoder("base64").write: the whole groups of the bytes kept and
\* given; the 1 or 2 bytes left over are kept for the next write.
Base64Write(carry, bytes) ==
    LET all == carry \o bytes
        n   == Len(all) - (Len(all) % 3)
    IN [string |-> toBase64(SubSeq(all, 1, n)),
        carry |-> SubSeq(all, n + 1, Len(all))]

\* StringDecoder("base64").end.
Base64End(carry, bytes) == toBase64(carry \o bytes)

\* Cipheriv.update: the whole blocks are chained and encrypted, the bytes
\* left over are kept.
RECURSIVE CipherUpdate(_, _, _)
CipherUpdate(key, prev, bytes) ==
    IF Len(bytes) < BlockLen THEN [out |-> <<>>, prev |-> prev, buf |-> bytes]
    ELSE LET c == EncryptBlock(key, XorBlock(SubSeq(bytes, 1, BlockLen), prev))
             r == CipherUpdate(key, c, SubSeq(bytes, BlockLen + 1, Len(bytes)))
         IN [out |-> c \o r.out, prev |-> r.prev, buf |-> r.buf]

\* Cipheriv.final: PKCS#7 pads the bytes kept to one block, n bytes of value n.
CipherFinal(key, prev, buf) ==
    LET n == BlockLen - Len(buf)
        padded == buf \o [i \in 1..n |-> n]
    IN EncryptBlock(key, XorBlock(padded, prev))

\* Decipheriv.update: as Cipheriv.update, but the last whole block is kept
\* for final.
RECURSIVE DecipherUpdate(_, _, _)
DecipherUpdate(key, prev, bytes) ==
    IF Len(bytes) <= BlockLen THEN [out |-> <<>>, prev |-> prev, buf |-> bytes]
    ELSE LET c == SubSeq(bytes, 1, BlockLen)
             r == DecipherUpdate(key, c, SubSeq(bytes, BlockLen + 1, Len(bytes)))
         IN [out |-> XorBlock(DecryptBlock(key, c), prev) \o r.out,
             prev |-> r.prev, buf |-> r.buf]

\* Decipheriv.final: the block kept is decrypted and its padding removed; it
\* throws when the block is not whole or the padding is not n bytes of n.
DecipherFinal(key, prev, buf) ==
    IF Len(buf) # BlockLen THEN DecryptError
    ELSE LET p == XorBlock(DecryptBlock(key, buf), prev)
             n == p[BlockLen]
         IN IF n \notin 1..BlockLen
               \/ \E i \in (BlockLen - n + 1)..BlockLen : p[i] # n
            THEN DecryptError
            ELSE [k |-> "bytes", bytes |-> SubSeq(p, 1, BlockLen - n)]

\* The bytes randomBytes may draw, the keys and the characters of the texts.
IvBytes == {0, 3, 6}

CipherKeys == {1, 2}

TextChars == {"a", "eacute", "replacement", "surrogate"}

Texts == UNION {[1..n -> TextChars] : n \in 0..MaxLen}

\* randomBytes(16).toString("base64").
RandomIvs == {toBase64(b) : b \in [1..BlockLen -> IvBytes]}

\* encryptSymmetric(text, key), random being the iv that randomBytes drew.
encryptSymmetricBytes(text, key, random) ==
    LET iv == random
        u  == CipherUpdate(key, fromBase64(iv), utf8Encode(text))
        w  == Base64Write(<<>>, u.out)
        ciphertext == w.string \o Base64End(w.carry, CipherFinal(key, u.prev, u.buf))
    IN [ciphertext |-> ciphertext, iv |-> iv]

\* decryptSymmetric(key, ciphertext, iv).
decryptSymmetricBytes(key, ciphertext, iv) ==
    LET u == DecipherUpdate(key, fromBase64(iv), fromBase64(ciphertext))
        w == utf8Decode(u.out, FALSE)
        f == DecipherFinal(key, u.prev, u.buf)
    IN IF f.k = "throw" THEN DecryptError
       ELSE [k |-> "text",
             text |-> w.text \o utf8Decode(w.rest \o f.bytes, TRUE).text]

\* ---------------------------------------------------------------- helpers
RECURSIVE SelectSeq2(_, _)
SelectSeq2(s, keep) ==
    IF s = <<>> THEN <<>>
    ELSE IF Head(s) \in keep THEN <<Head(s)>> \o SelectSeq2(Tail(s), keep)
    ELSE SelectSeq2(Tail(s), keep)

Range(s) == {s[i] : i \in 1..Len(s)}

\* The responses that report a change of a participation.
Done ==
    [join |-> "Event joined successfully", leave |-> "Event left successfully",
     verify |-> "Participation confirmed successfully"]

\* res.send at the end of a handler: the request is answered, its locals are
\* gone.  A sequential run also logs, per user and event, the joins, leaves
\* and verifies that succeeded.
Reply(s, r, v) ==
    /\ req' = [req EXCEPT ![s] =
                 [IdleReq EXCEPT !.pc = "done", !.op = req[s].op,
                                 !.user = req[s].user, !.event = req[s].event,
                                 !.body = req[s].body, !.resp = r, !.ret = v]]
    /\ hist' = [on |-> hist.on,
                log |-> IF /\ hist.on
                           /\ req[s].op \in DOMAIN Done
                           /\ r = Done[req[s].op]
                        THEN [hist.log EXCEPT ![req[s].user][req[s].event] =
                                 Append(@, req[s].op)]
                        ELSE hist.log]

Respond(s, r) == Reply(s, r, Null)

Goto(s, pc) == req' = [req EXCEPT ![s].pc = pc]

InFlight == {s \in Slots : req[s].pc # "idle"}

\* A request may arrive whenever a slot is free (it takes the first free one);
\* a sequential run admits it only after the previous response.
CanStart(s) ==
    /\ req[s].pc = "idle"
    /\ \A r \in Slots : r < s => req[r].pc # "idle"
    /\ hist.on => InFlight = {}

\* Request ids name an event of the collection or none of them.
EventIds == Events \cup {"e0"}

\* Event.findById(id)
findEventWithId(id) == IF id \in Events THEN events[id] ELSE NoDoc

Started(s, op, u, e, b, pc) ==
    /\ CanStart(s)
    /\ req' = [req EXCEPT ![s] =
                 [IdleReq EXCEPT !.pc = pc, !.op = op, !.user = u,
                                 !.event = e, !.body = b]]
    /\ UNCHANGED <<crypt, now, sweep, events, users, parts, issued, hist>>

\* The response has gone out; the slot is free for the next request.
Close(s) ==
    /\ req[s].pc = "done"
    /\ req' = [req EXCEPT ![s] = IdleReq]
    /\ UNCHANGED <<crypt, now, sweep, events, users, parts, issued, hist>>

\* const user = await findUserWithAuth0Id(auth0id): the document as it is now.
FindUser(s) ==
    /\ req[s].pc = "findUser"
    /\ req' = [req EXCEPT ![s].pc = "findEvent",
                          ![s].userDoc = users[req[s].user]]
    /\ UNCHANGED <<crypt, now, sweep, events, users, parts, issued, hist>>

\* user.populate("joinedEvents") and the filter every handler applies to it:
\* the user's participations, as listed in the user document read earlier and
\* as stored now, that are for this event and active.
\* The lookup without the isActive test: participations the user has left count.
JoinedParticipationsEver(userDoc, e) ==
    SelectSeq2(userDoc, {p \in PartIds : parts[p].event = e})

JoinedParticipations(userDoc, e) ==
    SelectSeq2(userDoc, {p \in PartIds : parts[p].event = e /\ parts[p].isActive})

\* ------------------------------------------------------- POST /:id/join
StartJoin(s, u, e) ==
    /\ Len(parts) + Cardinality({r \in InFlight : req[r].op = "join"}) < MaxParts
    /\ Started(s, "join", u, e, Null, "findUser")

\* The checks without the isActive test.
JoinEventCheckNoActive(ev) ==
    IF ev = NoDoc THEN "Event not found"
    ELSE IF ev.isDeactivated THEN "Event has been deactivated"
    ELSE "ok"

\* events.ts 1573-1596: the checks on the event document.
JoinEventCheck(ev) ==
    IF ev = NoDoc THEN "Event not found"
    ELSE IF ~ev.isActive THEN "Event is not active"
    ELSE IF ev.isDeactivated THEN "Event has been deactivated"
    ELSE "ok"

JoinFindEvent(s) ==
    /\ req[s].pc = "findEvent" /\ req[s].op = "join"
    /\ LET ev == findEventWithId(req[s].event) IN
       IF JoinEventCheck(ev) # "ok"
       THEN /\ Respond(s, JoinEventCheck(ev))
            /\ UNCHANGED <<crypt, now, sweep, events, users, parts, issued>>
       ELSE /\ req' = [req EXCEPT ![s].pc = "populate", ![s].eventDoc = ev]
            /\ UNCHANGED <<crypt, now, sweep, events, users, parts, issued, hist>>

\* events.ts 1598-1625: already joined, then full; both on the same list.
JoinCheck(joinedParticipations, ev) ==
    IF Len(joinedParticipations) > 0 THEN "User already joined this event"
    ELSE IF Len(joinedParticipations) >= ev.totalSeats THEN "Event is full"
    ELSE "ok"

JoinPopulate(s) ==
    /\ req[s].pc = "populate" /\ req[s].op = "join"
    /\ LET joined == JoinedParticipations(req[s].userDoc, req[s].event) IN
       IF JoinCheck(joined, req[s].eventDoc) # "ok"
       THEN /\ Respond(s, JoinCheck(joined, req[s].eventDoc))
            /\ UNCHANGED <<crypt, now, sweep, events, users, parts, issued>>
       ELSE /\ Goto(s, "save")
            /\ UNCHANGED <<crypt, now, sweep, events, users, parts, issued, hist>>

\* events.ts 1627-1633: await participation.save()
JoinSave(s) ==
    /\ req[s].pc = "save"
    /\ parts' = Append(parts, NewParticipation(req[s].user, req[s].event))
    /\ req' = [req EXCEPT ![s].pc = "linkEvent", ![s].made = Len(parts) + 1]
    /\ UNCHANGED <<crypt, now, sweep, events, users, issued, hist>>

\* events.ts 1635-1640: the event's list as read, plus the new id, written whole.
EventParticipants(eventDoc, id) == Append(eventDoc.participants, id)

JoinLinkEvent(s) ==
    /\ req[s].pc = "linkEvent"
    /\ events' = [events EXCEPT ![req[s].event].participants =
                     EventParticipants(req[s].eventDoc, req[s].made)]
    /\ Goto(s, "linkUser")
    /\ UNCHANGED <<crypt, now, sweep, users, parts, issued, hist>>

\* events.ts 1642-1652: the user's list as read, plus the new id, written whole.
JoinLinkUser(s) ==
    /\ req[s].pc = "linkUser"
    /\ users' = [users EXCEPT ![req[s].user] = Append(req[s].userDoc, req[s].made)]
    /\ Reply(s, "Event joined successfully", [k |-> "id", id |-> req[s].made])
    /\ UNCHANGED <<crypt, now, sweep, events, parts, issued>>

\* ------------------------------------------------------ POST /:id/leave
StartLeave(s, u, e) == Started(s, "leave", u, e, Null, "findUser")

\* events.ts 1699-1714
LeaveEventCheck(ev) ==
    IF ev = NoDoc THEN "Event not found"
    ELSE IF ev.isDeactivated THEN "Event has been deactivated"
    ELSE "ok"

LeaveFindEvent(s) ==
    /\ req[s].pc = "findEvent" /\ req[s].op = "leave"
    /\ LET ev == findEventWithId(req[s].event) IN
       IF LeaveEventCheck(ev) # "ok"
       THEN /\ Respond(s, LeaveEventCheck(ev))
            /\ UNCHANGED <<crypt, now, sweep, events, users, parts, issued>>
       ELSE /\ req' = [req EXCEPT ![s].pc = "populate", ![s].eventDoc = ev]
            /\ UNCHANGED <<crypt, now, sweep, events, users, parts, issued, hist>>

\* events.ts 1716-1735
LeavePopulate(s) ==
    /\ req[s].pc = "populate" /\ req[s].op = "leave"
    /\ LET joined == JoinedParticipations(req[s].userDoc, req[s].event) IN
       IF Len(joined) <= 0
       THEN /\ Respond(s, "User hasn't joined this event")
            /\ UNCHANGED <<crypt, now, sweep, events, users, parts, issued>>
       ELSE /\ req' = [req EXCEPT ![s].pc = "deactivate", ![s].found = joined]
            /\ UNCHANGED <<crypt, now, sweep, events, users, parts, issued, hist>>

\* The update that writes the participation back with its defaults.
LeaveUpdateReset(s) ==
    /\ req[s].pc = "deactivate" /\ req[s].op = "leave"
    /\ parts' = [parts EXCEPT ![Head(req[s].found)].isActive = FALSE,
                              ![Head(req[s].found)].isConfirmed = FALSE]
    /\ IF Len(req[s].found) > 1
       THEN /\ req' = [req EXCEPT ![s].found = Tail(@)]
            /\ UNCHANGED hist
       ELSE Respond(s, "Event left successfully")
    /\ UNCHANGED <<crypt, now, sweep, events, users, issued>>

\* events.ts 1737-1749: one updateOne per participation found, then the reply.
LeaveUpdate(s) ==
    /\ req[s].pc = "deactivate" /\ req[s].op = "leave"
    /\ parts' = [parts EXCEPT ![Head(req[s].found)].isActive = FALSE]
    /\ IF Len(req[s].found) > 1
       THEN /\ req' = [req EXCEPT ![s].found = Tail(@)]
            /\ UNCHANGED hist
       ELSE Respond(s, "Event left successfully")
    /\ UNCHANGED <<crypt, now, sweep, events, users, issued>>

\* ----------------------------------------------------- POST /:id/verify
StartVerify(s, u, e, code) == Started(s, "verify", u, e, code, "findUser")

\* The checks with join's isActive test added.
VerifyEventCheckActiveOnly(ev) ==
    IF ev = NoDoc THEN "Event not found"
    ELSE IF ~ev.isActive THEN "Event is not active"
    ELSE IF ev.isDeactivated THEN "Event has been deactivated"
    ELSE "ok"

\* events.ts 2008-2026
VerifyEventCheck(ev) ==
    IF ev = NoDoc THEN "Event not found"
    ELSE IF ev.isDeactivated THEN "Event has been deactivated"
    ELSE "ok"

VerifyFindEvent(s) ==
    /\ req[s].pc = "findEvent" /\ req[s].op = "verify"
    /\ LET ev == findEventWithId(req[s].event) IN
       IF VerifyEventCheck(ev) # "ok"
       THEN /\ Respond(s, VerifyEventCheck(ev))
            /\ UNCHANGED <<crypt, now, sweep, events, users, parts, issued>>
       ELSE /\ req' = [req EXCEPT ![s].pc = "populate", ![s].eventDoc = ev]
            /\ UNCHANGED <<crypt, now, sweep, events, users, parts, issued, hist>>

\* The check that accepts any string that decrypts, without comparing texts.
VerifyCodeCheckNoCompare(bodyQrcodeString, ev) ==
    LET eventQrcodeString == checkQrcode(ev.qrCodeString) IN
    IF ~Truthy(bodyQrcodeString) \/ ~Truthy(eventQrcodeString)
    THEN "Invalid QR Code"
    ELSE IF decryptSymmetric(QRCODE_ENCRYPTION_KEY, bodyQrcodeString,
                             ev.qrCodeIv) = DecryptError
    THEN "caught error"
    ELSE "ok"

\* events.ts 2054-2092: the scanned string against the event document read.
\* A throw of decryptSymmetric reaches the handler's catch: 400 with the error.
VerifyCodeCheck(bodyQrcodeString, ev) ==
    LET eventQrcodeString == checkQrcode(ev.qrCodeString) IN
    IF ~Truthy(bodyQrcodeString) \/ ~Truthy(eventQrcodeString)
    THEN "Invalid QR Code"
    ELSE IF ~Truthy(QRCODE_ENCRYPTION_KEY)
    THEN "QR Code Encryption Key not found"
    ELSE LET bodyText == decryptSymmetric(QRCODE_ENCRYPTION_KEY,
                                          bodyQrcodeString, ev.qrCodeIv)
             eventText == decryptSymmetric(QRCODE_ENCRYPTION_KEY,
                                           eventQrcodeString, ev.qrCodeIv)
         IN IF bodyText = DecryptError \/ eventText = DecryptError
            THEN "caught error"
            ELSE IF bodyText # eventText THEN "Invalid QR Code"
            ELSE "ok"

\* The check without the isConfirmed test.
VerifyParticipationCheckJoinedOnly(joined) ==
    IF Len(joined) = 0 THEN "User hasn't joined this event" ELSE "ok"

\* events.ts 2028-2052: the participation found, as populated.
VerifyParticipationCheck(joined) ==
    IF Len(joined) = 0 THEN "User hasn't joined this event"
    ELSE IF parts[Head(joined)].isConfirmed
    THEN "User has already confirmed participation"
    ELSE "ok"

\* events.ts 2028-2092: populate, find, and every check up to the write.
VerifyCheck(joined, code, ev) ==
    IF VerifyParticipationCheck(joined) # "ok"
    THEN VerifyParticipationCheck(joined)
    ELSE VerifyCodeCheck(code, ev)

VerifyPopulate(s) ==
    /\ req[s].pc = "populate" /\ req[s].op = "verify"
    /\ LET joined == JoinedParticipations(req[s].userDoc, req[s].event)
           r == VerifyCheck(joined, req[s].body, req[s].eventDoc)
       IN IF r # "ok"
          THEN /\ Respond(s, r)
               /\ UNCHANGED <<crypt, now, sweep, events, users, parts, issued>>
          ELSE /\ req' = [req EXCEPT ![s].pc = "confirm",
                                     ![s].found = <<Head(joined)>>]
               /\ UNCHANGED <<crypt, now, sweep, events, users, parts, issued, hist>>

\* The update addressed by user and event, not by the participation found:
\* it reaches the pair's first participation.
VerifyConfirmFirst(s) ==
    /\ req[s].pc = "confirm"
    /\ LET first == CHOOSE p \in PartIds :
                        /\ parts[p].user = req[s].user
                        /\ parts[p].event = req[s].event
                        /\ \A q \in PartIds :
                              (parts[q].user = req[s].user
                               /\ parts[q].event = req[s].event) => p <= q
       IN parts' = [parts EXCEPT ![first].isConfirmed = TRUE]
    /\ Respond(s, "Participation confirmed successfully")
    /\ UNCHANGED <<crypt, now, sweep, events, users, issued>>

\* events.ts 2094-2102: participation.updateOne({ isConfirmed: true })
VerifyConfirm(s) ==
    /\ req[s].pc = "confirm"
    /\ parts' = [parts EXCEPT ![Head(req[s].found)].isConfirmed = TRUE]
    /\ Respond(s, "Participation confirmed successfully")
    /\ UNCHANGED <<crypt, now, sweep, events, users, issued>>

\* ----------------------------------------------------- POST /:id/qrcode
StartQrcode(s, e) ==
    /\ Len(issued) + Cardinality({r \in InFlight : req[r].op = "qrcode"}) < MaxIssue
    /\ Started(s, "qrcode", "admin", e, Null, "findEvent")

\* The checks with the stored code looked at before the deactivation.
QrcodeEventCheckStoredFirst(ev) ==
    IF ev = NoDoc THEN "Event not found"
    ELSE IF Truthy(ev.qrCodeString) THEN "Event QR Code found successfully"
    ELSE IF ev.isDeactivated THEN "Event has been deactivated"
    ELSE IF ~Truthy(QRCODE_ENCRYPTION_KEY)
    THEN "QR Code Encryption Key not found"
    ELSE "ok"

\* The check without the reuse of a stored code: every call issues a new one.
QrcodeEventCheckAlwaysNew(ev) ==
    IF ev = NoDoc THEN "Event not found"
    ELSE IF ev.isDeactivated THEN "Event has been deactivated"
    ELSE IF ~Truthy(QRCODE_ENCRYPTION_KEY)
    THEN "QR Code Encryption Key not found"
    ELSE "ok"

\* events.ts 1903-1934: the checks on the event document read.
QrcodeEventCheck(ev) ==
    IF ev = NoDoc THEN "Event not found"
    ELSE IF ev.isDeactivated THEN "Event has been deactivated"
    ELSE IF Truthy(ev.qrCodeString) THEN "Event QR Code found successfully"
    ELSE IF ~Truthy(QRCODE_ENCRYPTION_KEY)
    THEN "QR Code Encryption Key not found"
    ELSE "ok"

\* events.ts 1903-1943: read the event; without a stored code, encrypt a new
\* text under a fresh iv (randomBytes(16)) and render it.
QrcodeFindEvent(s) ==
    /\ req[s].pc = "findEvent" /\ req[s].op = "qrcode"
    /\ LET ev == findEventWithId(req[s].event)
           r == QrcodeEventCheck(ev)
       IN IF r = "Event QR Code found successfully"
          THEN /\ Reply(s, r, ev.qrCodeString)
               /\ UNCHANGED <<crypt, now, sweep, events, users, parts, issued>>
          ELSE IF r # "ok"
          THEN /\ Respond(s, r)
               /\ UNCHANGED <<crypt, now, sweep, events, users, parts, issued>>
          ELSE /\ issued' = Append(issued, req[s].event)
               /\ req' = [req EXCEPT ![s].pc = "saveQrcode", ![s].eventDoc = ev,
                             ![s].made = Len(issued) + 1]
               /\ UNCHANGED <<crypt, now, sweep, events, users, parts, hist>>

\* The save that writes the iv only when the event has no code yet.
QrcodeSaveKeepIv(s) ==
    /\ req[s].pc = "saveQrcode"
    /\ LET cipher == Issuance(req[s].event, req[s].made)
           qrCodeString == toDataURL(cipher.ciphertext)
       IN /\ events' = [events EXCEPT ![req[s].event].qrCodeString = qrCodeString,
                                      ![req[s].event].qrCodeIv =
                                          IF Truthy(events[req[s].event].qrCodeString)
                                          THEN @ ELSE cipher.iv]
          /\ Reply(s, "Event QR Code not yet generated. Successfully generated one.",
                   qrCodeString)
    /\ UNCHANGED <<crypt, now, sweep, users, parts, issued>>

\* events.ts 1945-1956: event.updateOne({ qrCodeString, qrCodeIv })
QrcodeSave(s) ==
    /\ req[s].pc = "saveQrcode"
    /\ LET cipher == Issuance(req[s].event, req[s].made)
           qrCodeString == toDataURL(cipher.ciphertext)
       IN /\ events' = [events EXCEPT ![req[s].event].qrCodeString = qrCodeString,
                                      ![req[s].event].qrCodeIv = cipher.iv]
          /\ Reply(s, "Event QR Code not yet generated. Successfully generated one.",
                   qrCodeString)
    /\ UNCHANGED <<crypt, now, sweep, users, parts, issued>>

\* ------------------------------------------------- POST /:id/deactivate
StartDeactivate(s, e) == Started(s, "deactivate", "admin", e, Null, "findEvent")

\* events.ts 1781-1796
DeactivateEventCheck(ev) ==
    IF ev = NoDoc THEN "Event not found"
    ELSE IF ev.isDeactivated THEN "Event has already been deactivated"
    ELSE "ok"

DeactivateFindEvent(s) ==
    /\ req[s].pc = "findEvent" /\ req[s].op = "deactivate"
    /\ LET ev == findEventWithId(req[s].event) IN
       IF DeactivateEventCheck(ev) # "ok"
       THEN /\ Respond(s, DeactivateEventCheck(ev))
            /\ UNCHANGED <<crypt, now, sweep, events, users, parts, issued>>
       ELSE /\ req' = [req EXCEPT ![s].pc = "deactivateEvent", ![s].eventDoc = ev]
            /\ UNCHANGED <<crypt, now, sweep, events, users, parts, issued, hist>>

\* The update that sets isDeactivated and leaves isActive as it is.
DeactivateUpdateFlagOnly(s) ==
    /\ req[s].pc = "deactivateEvent"
    /\ events' = [events EXCEPT ![req[s].event].isDeactivated = TRUE]
    /\ Respond(s, "Event deactivated successfully")
    /\ UNCHANGED <<crypt, now, sweep, users, parts, issued>>

\* events.ts 1798-1807
DeactivateUpdate(s) ==
    /\ req[s].pc = "deactivateEvent"
    /\ events' = [events EXCEPT ![req[s].event].isActive = FALSE,
                                ![req[s].event].isDeactivated = TRUE]
    /\ Respond(s, "Event deactivated successfully")
    /\ UNCHANGED <<crypt, now, sweep, users, parts, issued>>

\* ------------------------------------------------------- POST /:id/edit
\* The body's optional fields: <<>> for one left out, <<v>> for one supplied.
\* name stands for the scalar fields the handler copies from the body.
EditBodies ==
    {[k |-> "edit", name |-> n, eventTypes |-> ty, endTime |-> <<>>] :
        n \in {<<>>, <<"n1">>}, ty \in {<<>>, <<{"t2"}>>}}

\* Bodies that supply only a new endTime.
EditEndTimes ==
    {[k |-> "edit", name |-> <<>>, eventTypes |-> <<>>, endTime |-> <<t>>] :
        t \in 0..(MaxNow + 1)}

\* events.ts 1488-1512: the update built from the body; eventTypes is always
\* part of it, empty when the body has none; endTime only when truthy.
EditJson(body) ==
    [name |-> body.name,
     eventTypes |-> IF body.eventTypes = <<>> THEN <<{}>> ELSE body.eventTypes,
     endTime |-> IF body.endTime = <<>> \/ body.endTime = <<0>> THEN <<>>
                 ELSE body.endTime]

StartEdit(s, e, b) == Started(s, "edit", "admin", e, b, "findEvent")

\* events.ts 1471-1486
EditEventCheck(ev) ==
    IF ev = NoDoc THEN "Event not found"
    ELSE IF ev.isDeactivated THEN "Event has been deactivated"
    ELSE "ok"

EditFindEvent(s) ==
    /\ req[s].pc = "findEvent" /\ req[s].op = "edit"
    /\ LET ev == findEventWithId(req[s].event) IN
       IF EditEventCheck(ev) # "ok"
       THEN /\ Respond(s, EditEventCheck(ev))
            /\ UNCHANGED <<crypt, now, sweep, events, users, parts, issued>>
       ELSE /\ req' = [req EXCEPT ![s].pc = "updateEvent", ![s].eventDoc = ev]
            /\ UNCHANGED <<crypt, now, sweep, events, users, parts, issued, hist>>

\* The update that makes the event active again when it sets an end time.
updateEventReactivating(doc, eventJson) ==
    [doc EXCEPT !.name = IF eventJson.name = <<>> THEN @ ELSE eventJson.name[1],
                !.eventTypes = IF eventJson.eventTypes = <<>> THEN @
                               ELSE eventJson.eventTypes[1],
                !.endTime = IF eventJson.endTime = <<>> THEN @
                            ELSE eventJson.endTime[1],
                !.isActive = IF eventJson.endTime = <<>> THEN @ ELSE TRUE]

\* updateEvent (services/events.ts): Event.findByIdAndUpdate(id, eventJson);
\* a key whose value is undefined is left out of the update.
updateEvent(doc, eventJson) ==
    [doc EXCEPT !.name = IF eventJson.name = <<>> THEN @ ELSE eventJson.name[1],
                !.eventTypes = IF eventJson.eventTypes = <<>> THEN @
                               ELSE eventJson.eventTypes[1],
                !.endTime = IF eventJson.endTime = <<>> THEN @
                            ELSE eventJson.endTime[1]]

\* events.ts 1488-1526
EditUpdate(s) ==
    /\ req[s].pc = "updateEvent"
    /\ events' = [events EXCEPT ![req[s].event] =
                     updateEvent(@, EditJson(req[s].body))]
    /\ Respond(s, "Event updated successfully")
    /\ UNCHANGED <<crypt, now, sweep, users, parts, issued>>

\* --------------------------------------------------------- POST /create
\* The bodies of a create request: the event types named, of which the lookup
\* finds those that exist, the seats and the end time.
CreateBodies ==
    {[k |-> "create", eventTypes |-> ty, totalSeats |-> n, endTime |-> t] :
        ty \in {{}, {"t1"}}, n \in 0..1, t \in 0..MaxNow}

\* The bodies that pass the checks of create.
ValidCreateBodies ==
    {b \in CreateBodies : b.eventTypes # {} /\ b.totalSeats >= 1}

Exists(e) == events[e] # NoDoc

\* The documents of the collection in the order of their ids.
EventOrder == <<"e1", "e2">>

\* The ids not yet given to an event; a new document gets a fresh one.
FreeIds == {e \in Events : ~Exists(e)}

StartCreate(s, b) ==
    /\ Cardinality({r \in InFlight : req[r].op = "create"}) < Cardinality(FreeIds)
    /\ Started(s, "create", "admin", "none", b, "createEvent")

\* events.ts 1033-1045 and the schema's validators (EventType.ts 49-52).
CreateCheck(body) ==
    IF body.eventTypes = {} THEN "no event types found"
    ELSE IF body.totalSeats < 1 THEN "caught error"
    ELSE "ok"

\* events.ts 1029-1075: look the event types up, save the event, reply.
CreateSave(s) ==
    /\ req[s].pc = "createEvent"
    /\ IF CreateCheck(req[s].body) # "ok"
       THEN /\ Respond(s, CreateCheck(req[s].body))
            /\ UNCHANGED <<crypt, now, sweep, events, users, parts, issued>>
       ELSE /\ \E id \in FreeIds :
                 /\ id = Head(SelectSeq(EventOrder, LAMBDA e : e \in FreeIds))
                 /\ events' = [events EXCEPT ![id] =
                       createEvent([name |-> "n0",
                                    eventTypes |-> req[s].body.eventTypes,
                                    totalSeats |-> req[s].body.totalSeats,
                                    startTime |-> 0,
                                    endTime |-> req[s].body.endTime,
                                    createdAt |-> now])]
                 /\ Reply(s, "Event created successfully", [k |-> "id", id |-> id])
            /\ UNCHANGED <<crypt, now, sweep, users, parts, issued>>

\* ------------------------------------------------------------- GET /:id
StartGet(s, e) == Started(s, "get", "anyone", e, Null, "findEvent")

\* events.ts 1248-1268; findAndPopulateEvent throws when there is no event.
GetEventCheck(ev) ==
    IF ev = NoDoc THEN "caught error"
    ELSE IF ev.isDeactivated THEN "Event has been deactivated"
    ELSE "Event found successfully"

\* events.ts 1242-1316: the handler reads and replies; it writes nothing.
GetFindEvent(s) ==
    /\ req[s].pc = "findEvent" /\ req[s].op = "get"
    /\ Respond(s, GetEventCheck(findEventWithId(req[s].event)))
    /\ UNCHANGED <<crypt, now, sweep, events, users, parts, issued>>

\* ----------------------------------------------------------------- GET /
EVENT_SORT_TYPES ==
    [MOST_RECENTLY_CREATED |-> 0, MOST_RECENT_START_DATE |-> 1,
     MOST_PARTICIPANTS |-> 2, LEAST_PARTICIPANTS |-> 3]

\* The filters of a list request: the route passes includeDeactivatedEvents
\* false; a sort type is one of the four or none of them.
ListFilters ==
    {[k |-> "list", pageNumber |-> 1, pageSize |-> n,
      includeDeactivatedEvents |-> FALSE, sortType |-> t, sortActive |-> a] :
        n \in 1..2, t \in 0..4, a \in BOOLEAN}

StartList(s, filter) == Started(s, "list", "anyone", "none", filter, "aggregate")

\* $match: deactivated events are left out unless asked for.
Matched(filter) ==
    {e \in Events :
        /\ Exists(e)
        /\ filter.includeDeactivatedEvents \/ ~events[e].isDeactivated}

\* $lookup and $addFields: the participations of the event's list that exist
\* and are active.
activeParticipants(e) ==
    Cardinality({p \in Range(events[e].participants) \cap PartIds :
                    parts[p].isActive})

\* The $sort document: the key of the sort type first, then, with sortActive,
\* isActive descending; the keys apply in the order of their insertion.
Sorts(filter) ==
    (IF filter.sortType = EVENT_SORT_TYPES.MOST_RECENTLY_CREATED
     THEN <<[field |-> "createdAt", dir |-> -1]>>
     ELSE IF filter.sortType = EVENT_SORT_TYPES.MOST_RECENT_START_DATE
     THEN <<[field |-> "startTime", dir |-> -1]>>
     ELSE IF filter.sortType = EVENT_SORT_TYPES.MOST_PARTICIPANTS
     THEN <<[field |-> "activeParticipants", dir |-> -1]>>
     ELSE <<[field |-> "activeParticipants", dir |-> 1]>>)
    \o (IF filter.sortActive THEN <<[field |-> "isActive", dir |-> -1]>>
        ELSE <<>>)

SortValue(e, field) ==
    IF field = "createdAt" THEN events[e].createdAt
    ELSE IF field = "startTime" THEN events[e].startTime
    ELSE IF field = "activeParticipants" THEN activeParticipants(e)
    ELSE IF events[e].isActive THEN 1 ELSE 0

\* a sorts strictly before b under the keys, taken in order.
RECURSIVE Before(_, _, _)
Before(a, b, sorts) ==
    IF sorts = <<>> THEN FALSE
    ELSE LET va == SortValue(a, Head(sorts).field)
             vb == SortValue(b, Head(sorts).field)
         IN IF va # vb
            THEN IF Head(sorts).dir = 1 THEN va < vb ELSE va > vb
            ELSE Before(a, b, Tail(sorts))

\* The orders $sort may return: documents equal under every key come in any
\* order.
Orders(S, sorts) ==
    {q \in [1..Cardinality(S) -> S] :
        /\ \A i, j \in 1..Cardinality(S) : i # j => q[i] # q[j]
        /\ \A i, j \in 1..Cardinality(S) : i < j => ~Before(q[j], q[i], sorts)}

\* $facet: $skip and $limit.
Page(q, filter) ==
    LET skip == (filter.pageNumber - 1) * filter.pageSize
        last == IF skip + filter.pageSize < Len(q) THEN skip + filter.pageSize
                ELSE Len(q)
    IN SubSeq(q, skip + 1, last)

\* getEvents: an unknown sort type throws before the aggregate runs; else the
\* page of the sorted matches and their count.
getEvents(s) ==
    /\ req[s].pc = "aggregate"
    /\ IF req[s].body.sortType \notin {EVENT_SORT_TYPES.MOST_RECENTLY_CREATED,
                                       EVENT_SORT_TYPES.MOST_RECENT_START_DATE,
                                       EVENT_SORT_TYPES.MOST_PARTICIPANTS,
                                       EVENT_SORT_TYPES.LEAST_PARTICIPANTS}
       THEN Respond(s, "caught error")
       ELSE \E q \in Orders(Matched(req[s].body), Sorts(req[s].body)) :
               Reply(s, "events",
                     [k |-> "events", events |-> Page(q, req[s].body),
                      count |-> Cardinality(Matched(req[s].body))])
    /\ UNCHANGED <<crypt, now, sweep, events, users, parts, issued>>

\* ---------------------------------------------------- POST /check-qrcode
StartCheck(s, u, e, code) == Started(s, "check", u, e, code, "findUser")

Checked == "QR Code checked successfully"

\* events.ts 1131-1204: the checks on the event read, then the empty string,
\* the key, decryptSymmetric under the event's iv (a throw reaches the catch:
\* 400 with the error) and the comparison of the decrypted event id.
CheckResult(ev, id, qrcodeString) ==
    IF ev = NoDoc THEN [resp |-> "Event not found", ret |-> Null]
    ELSE IF ~Truthy(ev.qrCodeString)
    THEN [resp |-> "Event QR Code not found", ret |-> Null]
    ELSE IF ev.isDeactivated
    THEN [resp |-> "Event has been deactivated", ret |-> Null]
    ELSE IF ~Truthy(qrcodeString)
    THEN [resp |-> Checked, ret |-> [k |-> "results", isValid |-> FALSE]]
    ELSE IF ~Truthy(QRCODE_ENCRYPTION_KEY)
    THEN [resp |-> "QR Code Encryption Key not found", ret |-> Null]
    ELSE LET decryptedText == decryptSymmetric(QRCODE_ENCRYPTION_KEY,
                                               qrcodeString, ev.qrCodeIv)
         IN IF decryptedText = DecryptError
            THEN [resp |-> "caught error", ret |-> Null]
            ELSE [resp |-> Checked,
                  ret |-> [k |-> "results",
                           isValid |-> /\ decryptedText.k = "text"
                                       /\ decryptedText.event = id]]

\* The handler that also confirms the user's participation on a valid code.
CheckFindEventConfirming(s) ==
    /\ req[s].pc = "findEvent" /\ req[s].op = "check"
    /\ LET r == CheckResult(findEventWithId(req[s].event), req[s].event,
                            req[s].body)
       IN /\ Reply(s, r.resp, r.ret)
          /\ parts' = [p \in PartIds |->
                         IF /\ r.ret # Null /\ r.ret.isValid
                            /\ parts[p].user = req[s].user
                            /\ parts[p].event = req[s].event
                         THEN [parts[p] EXCEPT !.isConfirmed = TRUE]
                         ELSE parts[p]]
    /\ UNCHANGED <<crypt, now, sweep, events, users, issued>>

\* events.ts 1131-1204: the handler reads the event and replies.
CheckFindEvent(s) ==
    /\ req[s].pc = "findEvent" /\ req[s].op = "check"
    /\ LET r == CheckResult(findEventWithId(req[s].event), req[s].event,
                            req[s].body)
       IN Reply(s, r.resp, r.ret)
    /\ UNCHANGED <<crypt, now, sweep, events, users, parts, issued>>

\* ------------------------------------------- checkActiveEvents (hourly)
\* Time passes.
Tick ==
    /\ now < MaxNow
    /\ now' = now + 1
    /\ UNCHANGED <<crypt, events, users, parts, issued, req, hist, sweep>>

\* Event.find({ endTime: { $lt: now }, isActive: true }), in id order.
SeqOf(S) == LET In(e) == e \in S IN SelectSeq(EventOrder, In)

\* The query that takes the events not yet ended for the ended ones.
ExpiredEventsNotEnded(t) ==
    SeqOf({e \in Events : Exists(e) /\ events[e].isActive /\ events[e].endTime > t})

ExpiredEvents(t) ==
    SeqOf({e \in Events : Exists(e) /\ events[e].isActive /\ events[e].endTime < t})

\* The timer fires: checkActiveEvents reads the clock and runs its query.
\* A run ends well within the hour, so runs do not overlap.
SweepFind ==
    /\ sweep.pc = "idle"
    /\ sweep' = IF ExpiredEvents(now) = <<>> THEN IdleSweep
                ELSE [pc |-> "update", found |-> ExpiredEvents(now)]
    /\ UNCHANGED <<crypt, events, users, parts, issued, req, hist, now>>

\* The update that writes both flags, as the deactivation does.
SweepUpdateDeactivating ==
    /\ sweep.pc = "update"
    /\ events' = [events EXCEPT ![Head(sweep.found)].isActive = FALSE,
                                ![Head(sweep.found)].isDeactivated = TRUE]
    /\ sweep' = IF Len(sweep.found) > 1
                THEN [sweep EXCEPT !.found = Tail(@)]
                ELSE IdleSweep
    /\ UNCHANGED <<crypt, users, parts, issued, req, hist, now>>

\* event.updateOne({ isActive: false }) for the next event found.
SweepUpdate ==
    /\ sweep.pc = "update"
    /\ events' = [events EXCEPT ![Head(sweep.found)].isActive = FALSE]
    /\ sweep' = IF Len(sweep.found) > 1
                THEN [sweep EXCEPT !.found = Tail(@)]
                ELSE IdleSweep
    /\ UNCHANGED <<crypt, users, parts, issued, req, hist, now>>

checkActiveEvents == SweepFind \/ SweepUpdate

\* ------------------------------------------------------- specifications
Join(s) ==
    \/ JoinFindEvent(s) \/ JoinPopulate(s) \/ JoinSave(s)
    \/ JoinLinkEvent(s) \/ JoinLinkUser(s)

Leave(s) == LeaveFindEvent(s) \/ LeavePopulate(s) \/ LeaveUpdate(s)

Verify(s) == VerifyFindEvent(s) \/ VerifyPopulate(s) \/ VerifyConfirm(s)

Qrcode(s) == QrcodeFindEvent(s) \/ QrcodeSave(s)

Deactivate(s) == DeactivateFindEvent(s) \/ DeactivateUpdate(s)

Edit(s) == EditFindEvent(s) \/ EditUpdate(s)

Create(s) == CreateSave(s)

Get(s) == GetFindEvent(s)

Check(s) == CheckFindEvent(s)

List(s) == getEvents(s)

\* Join and leave requests of any user for any event, served concurrently.
NextJoin ==
    \E s \in Slots :
        \/ \E u \in Users, e \in Events : StartJoin(s, u, e)
        \/ \E u \in Users, e \in Events : StartLeave(s, u, e)
        \/ FindUser(s) \/ Join(s) \/ Leave(s) \/ Close(s)

SpecJoin == Init /\ [][NextJoin]_vars

\* The join and leave requests of every user and the deactivation of events,
\* served one after the other.
NextSeat ==
    \E s \in Slots :
        \/ \E u \in Users, e \in EventIds : StartJoin(s, u, e)
        \/ \E u \in Users, e \in EventIds : StartLeave(s, u, e)
        \/ \E e \in EventIds : StartDeactivate(s, e)
        \/ FindUser(s) \/ Join(s) \/ Leave(s) \/ Deactivate(s) \/ Close(s)

SpecSeat == InitSeq /\ [][NextSeat]_vars

\* One user's participation requests on every event, the issuance of codes
\* and the deactivation of events, served one after the other.
NextPair ==
    \E s \in Slots :
        \/ \E e \in EventIds : StartJoin(s, "u1", e)
        \/ \E e \in EventIds : StartLeave(s, "u1", e)
        \/ \E e \in EventIds, c \in ScannedStrings(issued) :
              StartVerify(s, "u1", e, c)
        \/ \E e \in EventIds : StartQrcode(s, e)
        \/ \E e \in EventIds : StartDeactivate(s, e)
        \/ FindUser(s) \/ Join(s) \/ Leave(s) \/ Verify(s) \/ Qrcode(s)
        \/ Deactivate(s) \/ Close(s)

SpecPair == InitSeq /\ [][NextPair]_vars

\* One user's join, leave and verify on one event and the issuance of its
\* code, served concurrently.
NextVerify ==
    \E s \in Slots :
        \/ StartJoin(s, "u1", "e1")
        \/ StartLeave(s, "u1", "e1")
        \/ \E c \in ScannedStrings(issued) : StartVerify(s, "u1", "e1", c)
        \/ StartQrcode(s, "e1")
        \/ FindUser(s) \/ Join(s) \/ Leave(s) \/ Verify(s) \/ Qrcode(s) \/ Close(s)

SpecVerify == Init /\ [][NextVerify]_vars

\* One user's join and verify on one event and the issuance of codes for
\* every event, served concurrently.
NextCode ==
    \E s \in Slots :
        \/ StartJoin(s, "u1", "e1")
        \/ \E c \in ScannedStrings(issued) : StartVerify(s, "u1", "e1", c)
        \/ \E e \in Events : StartQrcode(s, e)
        \/ FindUser(s) \/ Join(s) \/ Verify(s) \/ Qrcode(s) \/ Close(s)

SpecCode == Init /\ [][NextCode]_vars

\* The administrators' requests on one event and a user's join, served
\* concurrently.
NextAdmin ==
    \E s \in Slots :
        \/ StartJoin(s, "u1", "e1")
        \/ StartQrcode(s, "e1")
        \/ StartDeactivate(s, "e1")
        \/ \E b \in EditBodies : StartEdit(s, "e1", b)
        \/ FindUser(s) \/ Join(s) \/ Qrcode(s) \/ Deactivate(s) \/ Edit(s)
        \/ Close(s)

SpecAdmin == Init /\ [][NextAdmin]_vars

\* Joins of one user for one event, racing one another, and leaves that start
\* once every earlier join has been answered.
NextLeave ==
    \E s \in Slots :
        \/ /\ \A r \in Slots : req[r].op = "leave" => req[r].pc = "done"
           /\ StartJoin(s, "u1", "e1")
        \/ /\ \A r \in Slots : req[r].op = "join" => req[r].pc = "done"
           /\ StartLeave(s, "u1", "e1")
        \/ FindUser(s) \/ Join(s) \/ Leave(s) \/ Close(s)

SpecLeave == Init /\ [][NextLeave]_vars

\* The checking of scanned codes against any event, next to a user's join,
\* the issuance of codes and a deactivation, served concurrently.
NextCheck ==
    \E s \in Slots :
        \/ StartJoin(s, "u1", "e1")
        \/ \E e \in Events : StartQrcode(s, e)
        \/ StartDeactivate(s, "e1")
        \/ \E e \in Events, c \in ScannedStrings(issued) :
              StartCheck(s, "u1", e, c)
        \/ FindUser(s) \/ Join(s) \/ Qrcode(s) \/ Deactivate(s) \/ Check(s)
        \/ Close(s)

SpecCheck == Init /\ [][NextCheck]_vars

\* A run of the two functions of services/crypto.ts: a text and a key, the
\* encryption of the text, the decryption of the result.
InitCrypto ==
    /\ \E text \in Texts, key \in CipherKeys :
          crypt = [pc |-> "plain", text |-> text, key |-> key]
    /\ events = [e \in Events |-> NoDoc]
    /\ users = [u \in Users |-> <<>>]
    /\ parts = <<>>
    /\ issued = <<>>
    /\ req = [s \in Slots |-> IdleReq]
    /\ hist = [on |-> TRUE, log |-> NoLog]
    /\ now = 0
    /\ sweep = IdleSweep

Encrypt ==
    /\ crypt.pc = "plain"
    /\ \E random \in RandomIvs :
          LET r == encryptSymmetricBytes(crypt.text, crypt.key, random)
          IN crypt' = [pc |-> "encrypted", text |-> crypt.text,
                       key |-> crypt.key, ciphertext |-> r.ciphertext,
                       iv |-> r.iv]
    /\ UNCHANGED <<now, sweep, events, users, parts, issued, req, hist>>

Decrypt ==
    /\ crypt.pc = "encrypted"
    /\ crypt' = [pc |-> "decrypted", text |-> crypt.text,
                 key |-> crypt.key, ciphertext |-> crypt.ciphertext,
                 iv |-> crypt.iv,
                 plaintext |-> decryptSymmetricBytes(crypt.key,
                                                     crypt.ciphertext,
                                                     crypt.iv)]
    /\ UNCHANGED <<now, sweep, events, users, parts, issued, req, hist>>

NextCrypto == Encrypt \/ Decrypt

SpecCrypto == InitCrypto /\ [][NextCrypto]_vars

\* The collections a list request may meet: two events created at times 0
\* and 1, each with a start time, active or made inactive by the sweep, and
\* each with no participation or one, active or left.
InitList ==
    /\ \E a1, a2 \in BOOLEAN, t1, t2 \in 0..1, n1, n2 \in 0..1,
          l1, l2 \in BOOLEAN :
          /\ n1 = 0 => l1
          /\ n2 = 0 => l2
          /\ parts = [i \in 1..(n1 + n2) |->
                         IF i <= n1
                         THEN [NewParticipation("u1", "e1") EXCEPT !.isActive = l1]
                         ELSE [NewParticipation("u1", "e2") EXCEPT !.isActive = l2]]
          /\ events =
                [e \in Events |->
                   IF e = "e1"
                   THEN [createEvent([name |-> "n0", eventTypes |-> {"t1"},
                                      totalSeats |-> 1, startTime |-> t1,
                                      endTime |-> 0, createdAt |-> 0])
                           EXCEPT !.isActive = a1,
                                  !.participants = [i \in 1..n1 |-> i]]
                   ELSE [createEvent([name |-> "n0", eventTypes |-> {"t1"},
                                      totalSeats |-> 1, startTime |-> t2,
                                      endTime |-> 0, createdAt |-> 1])
                           EXCEPT !.isActive = a2,
                                  !.participants = [i \in 1..n2 |-> n1 + i]]]
          /\ users = [u \in Users |->
                         IF u = "u1" THEN [i \in 1..(n1 + n2) |-> i] ELSE <<>>]
    /\ issued = <<>>
    /\ req = [s \in Slots |-> IdleReq]
    /\ hist = [on |-> TRUE, log |-> NoLog]
    /\ now = MaxNow
    /\ sweep = IdleSweep
    /\ crypt = IdleCipher

\* List requests, served one after the other.
NextList ==
    \E s \in Slots :
        \/ \E f \in ListFilters : StartList(s, f)
        \/ List(s) \/ Close(s)

SpecList == InitList /\ [][NextList]_vars

\* The administrators' requests on one event and the reading of it, served
\* concurrently.
NextRetire ==
    \E s \in Slots :
        \/ StartQrcode(s, "e1")
        \/ StartDeactivate(s, "e1")
        \/ \E b \in EditBodies : StartEdit(s, "e1", b)
        \/ StartGet(s, "e1")
        \/ Qrcode(s) \/ Deactivate(s) \/ Edit(s) \/ Get(s) \/ Close(s)

SpecRetire == Init /\ [][NextRetire]_vars

\* One event exists, the other is still to be created.
InitLife ==
    /\ events = [e \in Events |->
                    IF e = "e1"
                    THEN createEvent([name |-> "n0", eventTypes |-> {"t1"},
                                      totalSeats |-> 1, startTime |-> 0,
                                      endTime |-> 1, createdAt |-> 0])
                    ELSE NoDoc]
    /\ users = [u \in Users |-> <<>>]
    /\ parts = <<>>
    /\ issued = <<>>
    /\ req = [s \in Slots |-> IdleReq]
    /\ hist = [on |-> FALSE, log |-> NoLog]
    /\ now = 0
    /\ sweep = IdleSweep
    /\ crypt = IdleCipher

\* The life of events: the creation of an event that has ended, edits of the
\* end time (to 0, which the handler ignores, and to the end of the clock),
\* deactivation, the hourly sweep as time passes, and a user's joins, served
\* concurrently.
NextLife ==
    \/ \E s \in Slots :
          \/ \E b \in ValidCreateBodies : b.endTime = 0 /\ StartCreate(s, b)
          \/ \E b \in EditEndTimes :
                b.endTime \in {<<0>>, <<MaxNow + 1>>} /\ StartEdit(s, "e1", b)
          \/ StartDeactivate(s, "e1")
          \/ StartJoin(s, "u1", "e1")
          \/ FindUser(s) \/ Join(s) \/ Create(s) \/ Edit(s) \/ Deactivate(s)
          \/ Close(s)
    \/ Tick
    \/ checkActiveEvents

SpecLife == InitLife /\ [][NextLife]_vars

\* One event exists and ends at 1; requests are served one after the other.
InitPart ==
    /\ events = [e \in Events |->
                    IF e = "e1"
                    THEN createEvent([name |-> "n0", eventTypes |-> {"t1"},
                                      totalSeats |-> 1, startTime |-> 0,
                                      endTime |-> 1, createdAt |-> 0])
                    ELSE NoDoc]
    /\ users = [u \in Users |-> <<>>]
    /\ parts = <<>>
    /\ issued = <<>>
    /\ req = [s \in Slots |-> IdleReq]
    /\ hist = [on |-> TRUE, log |-> NoLog]
    /\ now = 0
    /\ sweep = IdleSweep
    /\ crypt = IdleCipher

\* Every operation that touches an event with participations: one user's
\* join, leave and verify on one event, the issuance of its code and its
\* deactivation, served one after the other while time passes and the hourly
\* sweep runs next to them.
NextPart ==
    \/ \E s \in Slots :
          \/ StartJoin(s, "u1", "e1")
          \/ StartLeave(s, "u1", "e1")
          \/ \E c \in ScannedStrings(issued) : StartVerify(s, "u1", "e1", c)
          \/ StartQrcode(s, "e1")
          \/ StartDeactivate(s, "e1")
          \/ FindUser(s) \/ Join(s) \/ Leave(s) \/ Verify(s) \/ Qrcode(s)
          \/ Deactivate(s) \/ Close(s)
    \/ Tick
    \/ checkActiveEvents

SpecPart == InitPart /\ [][NextPart]_vars

\* Both events exist, each with an end time the clock will pass.
InitTimer ==
    /\ events = [e \in Events |->
                    createEvent([name |-> "n0", eventTypes |-> {"t1"},
                                 totalSeats |-> 1, startTime |-> 0,
                                 endTime |-> IF e = "e1" THEN 0 ELSE MaxNow - 1,
                                 createdAt |-> 0])]
    /\ users = [u \in Users |-> <<>>]
    /\ parts = <<>>
    /\ issued = <<>>
    /\ req = [s \in Slots |-> IdleReq]
    /\ hist = [on |-> FALSE, log |-> NoLog]
    /\ now = 0
    /\ sweep = IdleSweep
    /\ crypt = IdleCipher

\* The hourly sweep as time passes, next to requests that move an event's
\* end time to another time the clock will pass and requests that deactivate.
NextTimer ==
    \/ \E s \in Slots :
          \/ \E b \in EditEndTimes :
                /\ b.endTime[1] < MaxNow
                /\ StartEdit(s, "e1", b)
          \/ StartDeactivate(s, "e2")
          \/ Edit(s) \/ Deactivate(s) \/ Close(s)
    \/ Tick
    \/ checkActiveEvents

\* setInterval keeps firing and the sweep's database calls complete; time
\* passes.  Nothing is assumed of the requests.
SpecTimer ==
    /\ InitTimer /\ [][NextTimer]_vars
    /\ WF_vars(Tick) /\ WF_vars(SweepFind) /\ WF_vars(SweepUpdate)

TypeOK ==
    /\ \A p \in PartIds : parts[p].user \in Users /\ parts[p].event \in Events
    /\ Len(parts) <= MaxParts
    /\ Len(issued) <= MaxIssue

\* --------------------------------------------------------------- claims
\* The participations of user u for event e, in the order of their creation.
PartsOf(u, e) ==
    SelectSeq2([i \in PartIds |-> i],
               {p \in PartIds : parts[p].user = u /\ parts[p].event = e})

ActiveParts(u, e) == {p \in Range(PartsOf(u, e)) : parts[p].isActive}

\* The number of participations of an event with isActive = true, whoever the user.
ActiveCount(e) ==
    Cardinality({p \in PartIds : parts[p].event = e /\ parts[p].isActive})

Running(op) == {s \in Slots : req[s].op = op /\ req[s].pc \notin {"idle", "done"}}

Answered(s, op) == req[s].pc = "done" /\ req[s].op = op

\* C1: in every reachable state, under any interleaving of join and leave
\* requests, the active participations of an event never exceed its totalSeats.
C1_SeatsNeverExceeded ==
    \A e \in Events : ActiveCount(e) <= events[e].totalSeats

\* C2: for every user and event at most one participation is active, also
\* when two joins of the same user for the same event interleave.
C2_AtMostOneActive ==
    \A u \in Users, e \in Events : Cardinality(ActiveParts(u, e)) <= 1

\* C3: run sequentially, a join of a user who has not joined, on an active and
\* not deactivated event whose active participations number totalSeats, is
\* rejected with "Event is full" and creates no participation.
C3_FullJoinRejected ==
    [][\A s \in Slots :
          (/\ req[s].op = "join" /\ req[s].pc = "populate"
           /\ req'[s].pc # "populate"
           /\ events[req[s].event].isActive
           /\ ~events[req[s].event].isDeactivated
           /\ ActiveParts(req[s].user, req[s].event) = {}
           /\ ActiveCount(req[s].event) = events[req[s].event].totalSeats)
          => /\ req'[s].pc = "done"
             /\ req'[s].resp = "Event is full"
             /\ parts' = parts]_vars

\* C4: once no join is in flight, every participation is listed in its
\* event's participants and in its user's joinedEvents: no append is lost.
C4_NoAppendLost ==
    Running("join") = {}
    => \A p \in PartIds :
          /\ p \in Range(events[parts[p].event].participants)
          /\ p \in Range(users[parts[p].user])

\* C5: verify never sets isConfirmed on a participation whose isActive is
\* false at the moment of the write, also when a leave interleaves.
C5_ConfirmOnlyActive ==
    [][\A p \in PartIds :
          (~parts[p].isConfirmed /\ parts'[p].isConfirmed) => parts[p].isActive]_vars

\* C6: an event's stored code and iv are written at most once: once stored
\* they never change, however the issuance requests interleave.
C6_CodeWrittenOnce ==
    [][\A e \in Events :
          Truthy(events[e].qrCodeString)
          => /\ events'[e].qrCodeString = events[e].qrCodeString
             /\ events'[e].qrCodeIv = events[e].qrCodeIv]_vars

\* C7: once isDeactivated is true, no later write creates a participation of
\* the event, changes its edited fields or changes its stored code and iv.
C7_DeactivationTerminal ==
    [][\A e \in Events :
          events[e].isDeactivated
          => /\ \A p \in 1..Len(parts') : p \notin PartIds => parts'[p].event # e
             /\ events'[e].name = events[e].name
             /\ events'[e].eventTypes = events[e].eventTypes
             /\ events'[e].totalSeats = events[e].totalSeats
             /\ events'[e].qrCodeString = events[e].qrCodeString
             /\ events'[e].qrCodeIv = events[e].qrCodeIv]_vars

Last(s) == s[Len(s)]

Joined == Done["join"]
Left == Done["leave"]
Confirmed == Done["verify"]

\* C8: run sequentially on an active, not deactivated event with a free seat,
\* join, leave and join again by one user each succeed (a join or leave that
\* follows them cannot be answered with a rejection), and afterwards the pair
\* has exactly two participations, the first inactive, the second active.
C8_JoinLeaveJoin ==
    \A u \in Users, e \in Events :
        /\ \A s \in Slots :
              (/\ req[s].pc = "done" /\ req[s].user = u /\ req[s].event = e
               /\ events[e].isActive /\ ~events[e].isDeactivated)
              => /\ (/\ req[s].op = "join"
                     /\ hist.log[u][e] \in {<<>>, <<"join", "leave">>}
                     /\ ActiveCount(e) < events[e].totalSeats)
                    => req[s].resp = Joined
                 /\ (req[s].op = "leave" /\ hist.log[u][e] = <<"join">>)
                    => req[s].resp = Left
        /\ hist.log[u][e] = <<"join", "leave", "join">>
           => /\ Len(PartsOf(u, e)) = 2
              /\ ~parts[PartsOf(u, e)[1]].isActive
              /\ parts[PartsOf(u, e)[2]].isActive

C8_Witness ==
    \E u \in Users, e \in Events, s \in Slots :
        /\ hist.log[u][e] = <<"join", "leave", "join">>
        /\ Answered(s, "join") /\ req[s].user = u /\ req[s].event = e
        /\ req[s].resp = Joined

AlreadyConfirmed == "User has already confirmed participation"

\* A verify in flight for a pair whose last successful request was a verify:
\* a verify has succeeded and no leave has followed it.
SecondVerify(s) ==
    /\ req[s].op = "verify" /\ req[s].pc \notin {"idle", "done"}
    /\ req[s].event \in Events
    /\ hist.log[req[s].user][req[s].event] # <<>>
    /\ Last(hist.log[req[s].user][req[s].event]) = "verify"

C10_ConfirmOnlyMatchingCode ==
    [][\A p \in PartIds :
          (~parts[p].isConfirmed /\ parts'[p].isConfirmed)
          => \E s \in Slots :
                /\ req[s].op = "verify" /\ req[s].pc = "confirm"
                /\ req[s].found = <<p>>
                /\ Truthy(req[s].eventDoc.qrCodeString)
                /\ decryptSymmetric(QRCODE_ENCRYPTION_KEY, req[s].body,
                                    req[s].eventDoc.qrCodeIv)
                   = decryptSymmetric(QRCODE_ENCRYPTION_KEY,
                                      checkQrcode(req[s].eventDoc.qrCodeString),
                                      req[s].eventDoc.qrCodeIv)
                /\ req[s].body.k = "ct"
                /\ req[s].body.pt.event = req[s].event
                /\ toDataURL(req[s].body) = req[s].eventDoc.qrCodeString]_vars

\* A verify has confirmed a participation while a code for another event was
\* in circulation.
C10_Witness ==
    /\ \E s \in Slots :
          /\ Answered(s, "verify") /\ req[s].resp = Confirmed
          /\ \E i \in 1..Len(issued) : issued[i] # req[s].event
    /\ \E p \in PartIds : parts[p].isConfirmed

Invalid == "Invalid QR Code"

\* C11: a verify that reaches the code check (the user holds an active,
\* unconfirmed participation) with a scanned string that is not the event's
\* stored code - empty, undecryptable or another payload - is answered with
\* "Invalid QR Code" and changes no participation.
C11_InvalidCodeSameRejection ==
    [][\A s \in Slots :
          (/\ req[s].op = "verify" /\ req[s].pc = "populate"
           /\ req'[s] # req[s]
           /\ VerifyParticipationCheck(
                  JoinedParticipations(req[s].userDoc, req[s].event)) = "ok"
           /\ toDataURL(req[s].body) # req[s].eventDoc.qrCodeString)
          => /\ req'[s].pc = "done"
             /\ req'[s].resp = Invalid
             /\ parts' = parts]_vars

Found == "Event QR Code found successfully"

\* C12: run sequentially on a not deactivated event, the call that issues the
\* code returns the string it stores, a stored code and iv are never written
\* again, and a call that finds a stored code returns exactly that string and
\* leaves the event as it is.
C12_SecondCallReturnsStored ==
    [][/\ \A s \in Slots :
             (req[s].op = "qrcode" /\ req[s].event \in Events /\ req'[s] # req[s])
             => /\ (/\ req[s].pc = "findEvent"
                    /\ Truthy(events[req[s].event].qrCodeString)
                    /\ ~events[req[s].event].isDeactivated)
                   => /\ events' = events
                      /\ req'[s].pc = "done"
                      /\ req'[s].resp = Found
                      /\ req'[s].ret = events[req[s].event].qrCodeString
                /\ req[s].pc = "saveQrcode"
                   => /\ Truthy(req'[s].ret)
                      /\ req'[s].ret = events'[req[s].event].qrCodeString
       /\ \A e \in Events :
             Truthy(events[e].qrCodeString)
             => /\ events'[e].qrCodeString = events[e].qrCodeString
                /\ events'[e].qrCodeIv = events[e].qrCodeIv]_vars

C12_Witness ==
    \E s \in Slots :
        /\ hist.on
        /\ Answered(s, "qrcode") /\ req[s].resp = Found
        /\ req[s].event \in Events
        /\ ~events[req[s].event].isDeactivated
        /\ req[s].ret = events[req[s].event].qrCodeString
        /\ req[s].ret = toDataURL(Issuance(req[s].event, 1).ciphertext)

\* C13: a join that reads an event an admin has deactivated is rejected with
\* "Event has been deactivated".
C13_DeactivatedJoinReason ==
    [][\A s \in Slots :
          (/\ req[s].op = "join" /\ req[s].pc = "findEvent"
           /\ req'[s] # req[s]
           /\ req[s].event \in Events
           /\ events[req[s].event].isDeactivated)
          => /\ req'[s].pc = "done"
             /\ req'[s].resp = "Event has been deactivated"]_vars

\* C18: run sequentially, a leave on an existing event is answered "Event left
\* successfully" whenever the user holds an active participation for it,
\* whatever the event's flags, and otherwise "User hasn't joined this event",
\* changing nothing.
C18_LeaveIgnoresEventFlags ==
    [][\A s \in Slots :
          (/\ req[s].op = "leave" /\ req[s].pc # "done" /\ req'[s].pc = "done"
           /\ req[s].event \in Events)
          => IF ActiveParts(req[s].user, req[s].event) # {}
             THEN req'[s].resp = Left
             ELSE /\ req'[s].resp = "User hasn't joined this event"
                  /\ parts' = parts /\ events' = events /\ users' = users]_vars

Deactivated == "Event has been deactivated"

\* C14: a request that reads an event after its deactivation is rejected and
\* leaves the event as it is: edit, qrcode (also with a code stored) and
\* GET /:id with "Event has been deactivated", deactivate with "Event has
\* already been deactivated".
C14_DeactivatedRejectsAll ==
    [][\A s \in Slots :
          (/\ req[s].pc = "findEvent" /\ req'[s] # req[s]
           /\ req[s].op \in {"edit", "qrcode", "get", "deactivate"}
           /\ req[s].event \in Events
           /\ events[req[s].event].isDeactivated)
          => /\ req'[s].pc = "done"
             /\ req'[s].resp = IF req[s].op = "deactivate"
                               THEN "Event has already been deactivated"
                               ELSE Deactivated
             /\ events' = events]_vars

C14_Witness ==
    \E s \in Slots :
        /\ Answered(s, "qrcode") /\ req[s].resp = Deactivated
        /\ events[req[s].event].isDeactivated
        /\ Truthy(events[req[s].event].qrCodeString)

\* C15: the sweep's query finds every active event whose endTime is earlier
\* than now, each update of the sweep sets isActive to false, an inactive
\* event stays inactive, and a join that reads an inactive event is rejected
\* with "Event is not active" and creates no participation.
C15_SweptEventRejectsJoin ==
    [][/\ (sweep.pc = "idle" /\ sweep'.pc = "update")
          => \A e \in Events :
                (Exists(e) /\ events[e].isActive /\ events[e].endTime < now)
                <=> e \in Range(sweep'.found)
       /\ (sweep.pc = "update" /\ sweep' # sweep)
          => ~events'[Head(sweep.found)].isActive
       /\ \A e \in Events :
             (Exists(e) /\ ~events[e].isActive) => ~events'[e].isActive
       /\ \A s \in Slots :
             (/\ req[s].op = "join" /\ req[s].pc = "findEvent"
              /\ req'[s] # req[s]
              /\ req[s].event \in Events /\ Exists(req[s].event)
              /\ ~events[req[s].event].isActive)
             => /\ req'[s].pc = "done"
                /\ req'[s].resp = "Event is not active"
                /\ parts' = parts]_vars

\* A join was rejected on an event that only the sweep can have made inactive.
C15_Witness ==
    \E s \in Slots :
        /\ Answered(s, "join") /\ req[s].resp = "Event is not active"
        /\ Exists(req[s].event)
        /\ ~events[req[s].event].isDeactivated
        /\ ~events[req[s].event].isActive
        /\ events[req[s].event].endTime < now
        /\ sweep.pc = "idle"
        /\ \A p \in PartIds : parts[p].event # req[s].event

\* C19: in every reachable state, under any interleaving of create, edit,
\* deactivate, the sweep and join, a deactivated event is inactive.
C19_DeactivatedIsInactive ==
    \A e \in Events :
        (Exists(e) /\ events[e].isDeactivated) => ~events[e].isActive

\* Every operation has written: e1 was joined, edited and deactivated, e2 was
\* created and swept.
C19_Witness ==
    /\ events["e1"].isDeactivated
    /\ events["e1"].participants # <<>>
    /\ events["e1"].endTime = MaxNow + 1
    /\ Exists("e2") /\ ~events["e2"].isActive

Expired(e) == Exists(e) /\ events[e].isActive /\ events[e].endTime < now

Inactive(e) == Exists(e) /\ ~events[e].isActive

\* C16: with the sweep timer firing again and again, every event whose endTime
\* has passed while it is active is eventually inactive, and an inactive event
\* stays inactive.
C16_ExpiredEventuallyInactive ==
    \A e \in Events :
        /\ Expired(e) ~> Inactive(e)
        /\ [](Inactive(e) => []Inactive(e))

\* The sweep has made an event inactive that no admin deactivated, after an
\* edit had moved its end time.
C16_Witness ==
    \E e \in Events :
        /\ Inactive(e) /\ ~events[e].isDeactivated
        /\ events[e].endTime < now
        /\ \E s \in Slots :
              /\ Answered(s, "edit") /\ req[s].event = e
              /\ req[s].resp = "Event updated successfully"
              /\ req[s].body.endTime = <<events[e].endTime>>

\* C17: when a leave that started after every earlier join was answered is
\* answered "Event left successfully", the pair has no active participation,
\* however the earlier joins interleaved.
C17_LeaveClearsPair ==
    [][\A s \in Slots :
          (/\ req[s].op = "leave" /\ req[s].pc # "done"
           /\ req'[s].pc = "done" /\ req'[s].resp = Left)
          => \A p \in 1..Len(parts') :
                (parts'[p].user = req[s].user /\ parts'[p].event = req[s].event)
                => ~parts'[p].isActive]_vars

\* C20: no step deletes a participation or changes its user or event; a
\* participation is created active and unconfirmed; and a confirmed
\* participation stays confirmed through every leave, join, verify,
\* deactivation and sweep.
C20_ConfirmedForever ==
    [][/\ Len(parts') >= Len(parts)
       /\ \A p \in 1..Len(parts') :
             IF p \in PartIds
             THEN /\ parts'[p].user = parts[p].user
                  /\ parts'[p].event = parts[p].event
                  /\ parts[p].isConfirmed => parts'[p].isConfirmed
             ELSE parts'[p].isActive /\ ~parts'[p].isConfirmed]_vars

\* A confirmed participation that the user has left, next to a later one, on
\* an event since deactivated.
C20_Witness ==
    /\ Len(parts) = 2
    /\ parts[1].isConfirmed /\ ~parts[1].isActive
    /\ parts[2].isActive
    /\ events["e1"].isDeactivated
    /\ sweep.pc = "idle" /\ now > 0

\* C21: check-qrcode on a not deactivated event with a stored code answers
\* "QR Code checked successfully" with isValid = false both for an empty
\* string and for a string that cannot be decrypted; neither is an error.
C21_UndecryptableIsInvalid ==
    [][\A s \in Slots :
          (/\ req[s].op = "check" /\ req[s].pc = "findEvent"
           /\ req'[s] # req[s]
           /\ req[s].event \in Events
           /\ Truthy(events[req[s].event].qrCodeString)
           /\ ~events[req[s].event].isDeactivated
           /\ req[s].body \in {Empty, Bad})
          => /\ req'[s].pc = "done"
             /\ req'[s].resp = Checked
             /\ req'[s].ret = [k |-> "results", isValid |-> FALSE]]_vars

\* C22: no step of a check-qrcode request changes a participation, an event
\* or a user, whatever the input and the outcome.
C22_CheckWritesNothing ==
    [][\A s \in Slots :
          (req[s].op = "check" /\ req'[s] # req[s])
          => /\ parts' = parts /\ events' = events
             /\ users' = users /\ issued' = issued]_vars

\* A code was found valid for an event the user holds a participation of.
C22_Witness ==
    \E s \in Slots :
        /\ Answered(s, "check") /\ req[s].resp = Checked
        /\ req[s].ret = [k |-> "results", isValid |-> TRUE]
        /\ \E p \in PartIds :
              /\ parts[p].user = req[s].user /\ parts[p].event = req[s].event
              /\ ~parts[p].isConfirmed

\* C23: an edit leaves every field its body does not supply as it was - the
\* event types when the body has none - and never changes isActive,
\* isDeactivated, participants or the stored code and iv.
C23_EditMergePatch ==
    [][\A s \in Slots :
          (req[s].op = "edit" /\ req[s].pc = "updateEvent" /\ req'[s] # req[s])
          => LET old == events[req[s].event]
                 new == events'[req[s].event]
             IN /\ req[s].body.name = <<>> => new.name = old.name
                /\ req[s].body.eventTypes = <<>> => new.eventTypes = old.eventTypes
                /\ req[s].body.endTime = <<>> => new.endTime = old.endTime
                /\ new.totalSeats = old.totalSeats
                /\ new.isActive = old.isActive
                /\ new.isDeactivated = old.isDeactivated
                /\ new.participants = old.participants
                /\ new.qrCodeString = old.qrCodeString
                /\ new.qrCodeIv = old.qrCodeIv]_vars

\* C24: in the result of a list request with sortActive set, every active
\* event precedes every inactive event, whatever the sort type.
C24_ActiveFirst ==
    [][\A s \in Slots :
          (/\ req[s].op = "list" /\ req[s].pc = "aggregate"
           /\ req'[s].pc = "done" /\ req'[s].resp = "events"
           /\ req[s].body.sortActive)
          => LET result == req'[s].ret.events IN
             \A i, j \in 1..Len(result) :
                (i < j) => ~(~events[result[i]].isActive
                             /\ events[result[j]].isActive)]_vars

C26_SweepOnlyRetires ==
    [][/\ (sweep.pc = "idle" /\ sweep'.pc = "update")
          => /\ events' = events /\ parts' = parts /\ users' = users
             /\ \A e \in Range(sweep'.found) :
                   /\ Exists(e) /\ events[e].isActive
                   /\ events[e].endTime < now
       /\ (sweep.pc = "update" /\ sweep' # sweep)
          => /\ parts' = parts /\ users' = users
             /\ events' = [events EXCEPT ![Head(sweep.found)] =
                              [events[Head(sweep.found)] EXCEPT !.isActive = FALSE]]
      ]_vars

\* The sweep has retired an event while a join of it was in flight, and the
\* participation the join appended is in the event's list.
C26_Witness ==
    \E e \in Events :
        /\ Exists(e) /\ ~events[e].isActive /\ ~events[e].isDeactivated
        /\ Len(events[e].participants) > 0
        /\ \E s \in Running("join") : req[s].event = e

\* C27: a verify answered while the event is inactive (ended and swept) and
\* not deactivated, by a user with an active, unconfirmed participation in
\* it, with the code the event stores, succeeds and confirms the
\* participation: verify does not look at isActive.
C27_VerifyAfterEnd ==
    [][\A s \in Slots :
          LET e == req[s].event
              joined == JoinedParticipations(users[req[s].user], e)
          IN (/\ req[s].op = "verify" /\ req[s].pc \notin {"idle", "done"}
              /\ req'[s].pc = "done"
              /\ Exists(e) /\ ~events[e].isActive /\ ~events[e].isDeactivated
              /\ Len(joined) > 0
              /\ \A p \in Range(joined) : ~parts[p].isConfirmed
              /\ Truthy(req[s].body)
              /\ events[e].qrCodeString = toDataURL(req[s].body))
             => /\ req'[s].resp = "Participation confirmed successfully"
                /\ parts'[Head(joined)].isConfirmed]_vars

\* A verify has read the event when it was inactive and not deactivated, has
\* passed every check and is about to confirm the participation.
C27_Witness ==
    \E s \in Slots :
        /\ req[s].op = "verify" /\ req[s].pc = "confirm"
        /\ ~req[s].eventDoc.isActive /\ ~req[s].eventDoc.isDeactivated

\* C28: no step takes isActive of an event from false to true or isDeactivated
\* from true to false; an edit leaves both flags as they are, so an event
\* that join rejects is rejected after every step too, an edit that moves
\* its endTime past the clock included.
C28_FlagsMonotone ==
    [][/\ \A e \in Events :
             Exists(e)
             => /\ Exists(e)'
                /\ ~events[e].isActive => ~events'[e].isActive
                /\ events[e].isDeactivated => events'[e].isDeactivated
                /\ JoinEventCheck(events[e]) # "ok"
                   => JoinEventCheck(events'[e]) # "ok"
       /\ \A s \in Slots :
             (req[s].op = "edit" /\ req[s].pc = "updateEvent"
              /\ req'[s].pc = "done")
             => /\ events'[req[s].event].isActive = events[req[s].event].isActive
                /\ events'[req[s].event].isDeactivated
                      = events[req[s].event].isDeactivated]_vars

\* An event that has ended and was swept has its endTime moved past the clock
\* by an edit, is still inactive, and a join of it was rejected.
C28_Witness ==
    /\ ~events["e1"].isActive /\ ~events["e1"].isDeactivated
    /\ events["e1"].endTime > now
    /\ \E s \in Slots :
          /\ Answered(s, "edit") /\ req[s].resp = "Event updated successfully"
          /\ req[s].body.endTime = <<events["e1"].endTime>>
    /\ \E s \in Slots :
          /\ Answered(s, "join") /\ req[s].event = "e1"
          /\ req[s].resp = "Event is not active"

\* C29: in every reachable state, also when issuances of the code race, an
\* event has neither qrCodeString nor qrCodeIv, or both come from one
\* encryption made for this event, and the stored code decrypts under the
\* server key and the stored iv to the text "<event id>|<timestamp>" of that
\* encryption.
C29_CodeAndIvFromOneCall ==
    \A e \in Events :
        \/ events[e].qrCodeString = Null /\ events[e].qrCodeIv = Null
        \/ \E i \in 1..Len(issued) :
              /\ issued[i] = e
              /\ events[e].qrCodeString = toDataURL(Issuance(e, i).ciphertext)
              /\ events[e].qrCodeIv = Issuance(e, i).iv
              /\ decryptSymmetric(QRCODE_ENCRYPTION_KEY,
                                  checkQrcode(events[e].qrCodeString),
                                  events[e].qrCodeIv)
                 = OriginalString(e, i)

\* Two issuances for one event have raced: both found no code, both saved
\* theirs, and the event stores a code.
C29_Witness ==
    \E s, r \in Slots :
        /\ s # r
        /\ Answered(s, "qrcode") /\ Answered(r, "qrcode")
        /\ req[s].event = req[r].event
        /\ req[s].resp = "Event QR Code not yet generated. Successfully generated one."
        /\ req[r].resp = req[s].resp
        /\ Truthy(events[req[s].event].qrCodeString)

ConfirmedParts(u, e) == {p \in Range(PartsOf(u, e)) : parts[p].isConfirmed}

====
